---- MODULE Spec2Model ----
(***************************************************************************)
(* A model of the extraction-and-normalization pipeline of                 *)
(* beatport_playlist_scraper.py: extract_script_json, is_track_dict,       *)
(* extract_tracks_from_data, normalize_track and the deduplication loop    *)
(* of build_playlist_data.                                                 *)
(*                                                                         *)
(* JSON values are tagged records.  A Python str is a sequence of          *)
(* one-character strings, so that strip, lower, join and str() are         *)
(* computed and not assumed.  A dict is a sequence of <<key, value>>       *)
(* pairs in insertion order (dict keys are atomic strings).  JSON numbers  *)
(* are integers; booleans and floats are left out.                         *)
(***************************************************************************)
EXTENDS Integers, Sequences, FiniteSets, TLC

VARIABLES pc, seed, track, verdict, canon, data, stack, tracks, cands, idx, seen, normalized, html, pattern, matches, blobs, seed2, canon2, popped, extract_all, page, total_tracks, all_page_sources, page_source

(***************************************************************************)
(* pc          where the function under study stands                       *)
(* seed        the run: fixes the iteration order of the key sets          *)
(* track       the argument of is_track_dict and of normalize_track        *)
(* verdict     the result of is_track_dict                                 *)
(* canon       the result of normalize_track                               *)
(* data        the argument of extract_tracks_from_data                    *)
(* stack       its work list, tracks its result (references into data)     *)
(* popped      history of the loop: the references stack.pop() returned    *)
(* cands       the candidate records build_playlist_data normalizes        *)
(* idx         how many of them the loop has gone through                  *)
(* seen        the keys met so far, normalized the result                  *)
(* html        the argument of extract_script_json                         *)
(* pattern     the state pattern being matched                             *)
(* matches     the matches of the current pattern still to be read         *)
(* blobs       the result of extract_script_json (positions in html)       *)
(* seed2       a second run of the program, with its own iteration order   *)
(* canon2      the result of normalize_track in the second run             *)
(* extract_all the argument of fetch_html_with_selenium                    *)
(* page, total_tracks, all_page_sources, page_source   its local variables *)
(***************************************************************************)
vars == <<pc, seed, track, verdict, canon, data, stack, tracks, cands, idx, seen, normalized, html, pattern, matches, blobs, seed2, canon2, popped, extract_all, page, total_tracks, all_page_sources, page_source>>

(***************************************************************************)
(* Bounds of the model.                                                    *)
(***************************************************************************)
\* number of distinct iteration orders of the key sets that are explored
NumSeeds == 2

\* nesting depth of the JSON values given to extract_tracks_from_data
MaxDepth == 3

\* length of the candidate list given to the deduplication loop
MaxTracks == 3

\* number of pattern occurrences in the html given to extract_script_json
MaxSegments == 3

(***************************************************************************)
(* JSON values                                                             *)
(***************************************************************************)
Null == [t |-> "null"]

Str(s) == [t |-> "str", s |-> s]

Num(n) == [t |-> "num", n |-> n]

List(xs) == [t |-> "list", xs |-> xs]

Map(kv) == [t |-> "map", kv |-> kv]

IsDict(v) == v.t = "map"

IsList(v) == v.t = "list"

IsStr(v) == v.t = "str"

\* dict.keys()
Keys(m) == {m.kv[i][1] : i \in 1..Len(m.kv)}

\* key in dict
HasKey(m, k) == k \in Keys(m)

\* dict[key], for a key that is present
Get(m, k) == m.kv[CHOOSE i \in 1..Len(m.kv) : m.kv[i][1] = k][2]

\* dict.get(key): None when the key is absent
GetOrNone(m, k) == IF HasKey(m, k) THEN Get(m, k) ELSE Null

\* Python truthiness of a JSON value
Truthy(v) ==
    CASE v.t = "null" -> FALSE
      [] v.t = "str" -> v.s # <<>>
      [] v.t = "num" -> v.n # 0
      [] v.t = "list" -> v.xs # <<>>
      [] v.t = "map" -> v.kv # <<>>

(***************************************************************************)
(* Python strings                                                          *)
(***************************************************************************)
UpperCase == <<"A","B","C","D","E","F","G","H","I","J","K","L","M","N","O","P","Q","R","S","T","U","V","W","X","Y","Z">>

LowerCase == <<"a","b","c","d","e","f","g","h","i","j","k","l","m","n","o","p","q","r","s","t","u","v","w","x","y","z">>

Whitespace == {" ", "\t", "\n"}

LowerChar(c) ==
    IF \E i \in 1..Len(UpperCase) : UpperCase[i] = c
    THEN LowerCase[CHOOSE i \in 1..Len(UpperCase) : UpperCase[i] = c]
    ELSE c

\* str.lower()
Lower(s) == [i \in 1..Len(s) |-> LowerChar(s[i])]

RECURSIVE LStrip(_)
LStrip(s) == IF s # <<>> /\ Head(s) \in Whitespace THEN LStrip(Tail(s)) ELSE s

RECURSIVE RStrip(_)
RStrip(s) ==
    IF s # <<>> /\ s[Len(s)] \in Whitespace THEN RStrip(SubSeq(s, 1, Len(s) - 1)) ELSE s

\* str.strip()
Strip(s) == RStrip(LStrip(s))

RECURSIVE Join(_, _)
\* sep.join(parts)
Join(sep, parts) ==
    IF parts = <<>> THEN <<>>
    ELSE IF Len(parts) = 1 THEN parts[1]
    ELSE parts[1] \o sep \o Join(sep, Tail(parts))

\* str.startswith(prefix)
StartsWith(s, prefix) == Len(s) >= Len(prefix) /\ SubSeq(s, 1, Len(prefix)) = prefix

Digits == <<"0","1","2","3","4","5","6","7","8","9">>

RECURSIVE NatStr(_)
NatStr(n) == IF n < 10 THEN <<Digits[n + 1]>> ELSE NatStr(n \div 10) \o <<Digits[(n % 10) + 1]>>

\* str(int)
IntStr(n) == IF n < 0 THEN <<"-">> \o NatStr(-n) ELSE NatStr(n)

RECURSIVE PyRepr(_)
\* repr() of a JSON value (strings without quotes or backslashes)
PyRepr(v) ==
    CASE v.t = "null" -> <<"N","o","n","e">>
      [] v.t = "str" -> <<"'">> \o v.s \o <<"'">>
      [] v.t = "num" -> IntStr(v.n)
      [] v.t = "list" ->
           <<"[">> \o Join(<<",", " ">>, [i \in 1..Len(v.xs) |-> PyRepr(v.xs[i])]) \o <<"]">>
      [] v.t = "map" ->
           <<"{">>
           \o Join(<<",", " ">>,
                   [i \in 1..Len(v.kv) |->
                       <<"'", v.kv[i][1], "'", ":", " ">> \o PyRepr(v.kv[i][2])])
           \o <<"}">>

\* str() of a JSON value
PyStr(v) == IF v.t = "str" THEN v.s ELSE PyRepr(v)

(***************************************************************************)
(* The key sets.  Each is a Python set of str, whose iteration order is    *)
(* fixed within one run and differs between runs (hash randomisation).     *)
(* The sequence gives the members; KeyOrder gives the order of one run.    *)
(***************************************************************************)
TRACK_NAME_KEYS == <<"name", "title", "track_name", "trackName">>

ARTIST_KEYS == <<"artists", "artist", "artist_name", "artistName">>

MIX_KEYS == <<"mixName", "mix_name", "mix">>

LABEL_KEYS == <<"label", "labelName", "label_name">>

GENRE_KEYS == <<"genre", "genreName", "primaryGenre">>

IMAGE_KEYS == <<"image", "images", "artwork", "album_art", "albumArt">>

Range(s) == {s[i] : i \in 1..Len(s)}

Reverse(s) == [i \in 1..Len(s) |-> s[Len(s) + 1 - i]]

Rotate(s, k) == [i \in 1..Len(s) |-> s[((i - 1 + k) % Len(s)) + 1]]

\* the iteration order of a key set in the run with hash seed sd
KeyOrder(keys, sd) ==
    IF sd % 2 = 0 THEN Rotate(keys, sd \div 2) ELSE Reverse(Rotate(keys, sd \div 2))

Seeds == 0..(NumSeeds - 1)

(***************************************************************************)
(* is_track_dict                                                           *)
(***************************************************************************)
\* a variant of is_track_dict without the parentheses around the alternatives
is_track_dict_unparenthesised(d) ==
    \/ /\ Keys(d) \cap Range(TRACK_NAME_KEYS) # {}
       /\ Keys(d) \cap Range(ARTIST_KEYS) # {}
    \/ Keys(d) \cap Range(MIX_KEYS) # {}
    \/ "bpm" \in Keys(d)

is_track_dict(d) ==
    /\ Keys(d) \cap Range(TRACK_NAME_KEYS) # {}
    /\ \/ Keys(d) \cap Range(ARTIST_KEYS) # {}
       \/ Keys(d) \cap Range(MIX_KEYS) # {}
       \/ "bpm" \in Keys(d)

(***************************************************************************)
(* Variables a component does not use keep these values.                   *)
(***************************************************************************)
IdleNormalize == track = Null /\ verdict = FALSE /\ canon = Null

IdleCollect == data = Null /\ stack = <<>> /\ tracks = <<>> /\ popped = <<>>

IdleBuild == cands = <<>> /\ idx = 0 /\ seen = {} /\ normalized = <<>>

IdleLocate == html = <<>> /\ pattern = 0 /\ matches = <<>> /\ blobs = <<>>

IdleSecondRun == seed2 = 0 /\ canon2 = Null

IdleFetch ==
    /\ extract_all = FALSE /\ page = 0 /\ total_tracks = 0
    /\ all_page_sources = <<>> /\ page_source = Null

(***************************************************************************)
(* The classifier on its own: every set of keys over the classifier's key  *)
(* sets, "bpm" and two keys it does not know.                              *)
(***************************************************************************)
ClassifyKeys ==
    TRACK_NAME_KEYS \o ARTIST_KEYS \o MIX_KEYS \o <<"bpm", "remixers", "id">>

\* the mapping with exactly the keys ks, in the order of ClassifyKeys
DictOfKeys(ks) ==
    LET present == SelectSeq(ClassifyKeys, LAMBDA k : k \in ks)
    IN  Map([i \in 1..Len(present) |-> <<present[i], Null>>])

InitClassify ==
    /\ pc = "classify"
    /\ seed = 0
    /\ track \in {DictOfKeys(ks) : ks \in SUBSET Range(ClassifyKeys)}
    /\ verdict = FALSE
    /\ canon = Null
    /\ IdleCollect /\ IdleBuild /\ IdleLocate /\ IdleSecondRun /\ IdleFetch

Classify ==
    /\ pc = "classify"
    /\ verdict' = is_track_dict(track)
    /\ pc' = "classified"
    /\ UNCHANGED <<seed, track, canon, data, stack, tracks, cands, idx, seen, normalized, html, pattern, matches, blobs, seed2, canon2, popped, extract_all, page, total_tracks, all_page_sources, page_source>>

NextClassify == Classify

SpecClassify == InitClassify /\ [][NextClassify]_vars

\* C6: is_track_dict accepts a mapping if and only if it has a key among
\* name/title/track_name/trackName and also an artist key, a mix-name key or
\* the key bpm.
C6_ClassifierIff ==
    pc = "classified" =>
        verdict =
            (/\ \E k \in {"name", "title", "track_name", "trackName"} : HasKey(track, k)
             /\ \/ \E k \in {"artists", "artist", "artist_name", "artistName"} : HasKey(track, k)
                \/ \E k \in {"mixName", "mix_name", "mix"} : HasKey(track, k)
                \/ HasKey(track, "bpm"))

\* C6, second sentence: a mapping with no name key, or with name keys only,
\* is never classified as a track.
C6_NameKeyAloneOrMissing ==
    pc = "classified" =>
        ((Keys(track) \cap {"name", "title", "track_name", "trackName"} = {}
          \/ Keys(track) \subseteq {"name", "title", "track_name", "trackName"})
            => ~verdict)

\* both parts of C6
C6_Classifier == C6_ClassifierIff /\ C6_NameKeyAloneOrMissing

\* a mapping with just the keys trackName and bpm was classified and
\* accepted
C6_Witness ==
    /\ pc = "classified"
    /\ Keys(track) = {"trackName", "bpm"}
    /\ verdict

(***************************************************************************)
(* extract_tracks_from_data.  The stack and the result hold references to  *)
(* nodes of the input; a reference is the path of child indices from the   *)
(* root.                                                                   *)
(***************************************************************************)
\* a variant of iter_nested that does not descend into lists
iter_nested_dict_only(v) == IF IsDict(v) THEN [i \in 1..Len(v.kv) |-> v.kv[i][2]] ELSE <<>>

\* a variant of iter_nested that does not descend into dicts
iter_nested_list_only(v) == IF IsList(v) THEN v.xs ELSE <<>>

\* iter_nested: the values of a dict, the elements of a list, else nothing
iter_nested(v) ==
    IF IsDict(v) THEN [i \in 1..Len(v.kv) |-> v.kv[i][2]]
    ELSE IF IsList(v) THEN v.xs
    ELSE <<>>

\* the nodes directly inside a node, in order: what child index i refers to
ChildrenOf(v) ==
    CASE v.t = "map" -> [i \in 1..Len(v.kv) |-> v.kv[i][2]]
      [] v.t = "list" -> v.xs
      [] OTHER -> <<>>

RECURSIVE NodeAt(_, _)
\* the node a reference points to
NodeAt(v, p) == IF p = <<>> THEN v ELSE NodeAt(ChildrenOf(v)[Head(p)], Tail(p))

\* the position of a present key in a dict
KeyIndex(m, k) == CHOOSE i \in 1..Len(m.kv) : m.kv[i][1] = k

\* a variant of lines 324-327 that leaves the elements the classifier accepts
\* to the classifier
TracksChildrenUnclassified(current, cpath) ==
    IF IsDict(current) /\ HasKey(current, "tracks") /\ IsList(Get(current, "tracks"))
    THEN LET lst == Get(current, "tracks")
             lpath == cpath \o <<CHOOSE i \in 1..Len(current.kv) : current.kv[i][1] = "tracks">>
             elems == [j \in 1..Len(lst.xs) |-> lpath \o <<j>>]
         IN  SelectSeq(elems, LAMBDA q : /\ IsDict(lst.xs[q[Len(q)]])
                                         /\ ~is_track_dict(lst.xs[q[Len(q)]]))
    ELSE <<>>

\* lines 324-327: the dict elements of current["tracks"], when it is a list
TracksChildren(current, cpath) ==
    IF IsDict(current) /\ HasKey(current, "tracks") /\ IsList(Get(current, "tracks"))
    THEN LET lst == Get(current, "tracks")
             lpath == cpath \o <<KeyIndex(current, "tracks")>>
             elems == [j \in 1..Len(lst.xs) |-> lpath \o <<j>>]
         IN  SelectSeq(elems, LAMBDA q : IsDict(NodeAt(current, <<q[Len(q) - 1], q[Len(q)]>>)))
    ELSE <<>>

\* lines 328-329: current itself, when the classifier accepts it
SelfIfTrack(current, cpath) ==
    IF IsDict(current) /\ is_track_dict(current) THEN <<cpath>> ELSE <<>>

\* one iteration of the while loop: pop, collect, push the children
CollectStep ==
    /\ pc = "collect"
    /\ stack # <<>>
    /\ LET cpath == stack[Len(stack)]
           current == NodeAt(data, cpath)
           children == iter_nested(current)
       IN  /\ tracks' = tracks \o TracksChildren(current, cpath) \o SelfIfTrack(current, cpath)
           /\ stack' = SubSeq(stack, 1, Len(stack) - 1)
                       \o [i \in 1..Len(children) |-> cpath \o <<i>>]
           /\ popped' = Append(popped, cpath)
    /\ UNCHANGED <<pc, seed, track, verdict, canon, data, cands, idx, seen, normalized, html, pattern, matches, blobs, seed2, canon2, extract_all, page, total_tracks, all_page_sources, page_source>>

\* the loop ends on the empty stack and the function returns tracks
CollectReturn ==
    /\ pc = "collect"
    /\ stack = <<>>
    /\ pc' = "collected"
    /\ UNCHANGED <<seed, track, verdict, canon, data, stack, tracks, cands, idx, seen, normalized, html, pattern, matches, blobs, seed2, canon2, popped, extract_all, page, total_tracks, all_page_sources, page_source>>

\* the inputs: leaves, wrapped MaxDepth times in lists and dicts
TrackLeaf == Map(<< <<"name", Str(<<"T","1">>)>>, <<"artist", Str(<<"X">>)>> >>)

NameOnlyLeaf == Map(<< <<"name", Str(<<"N">>)>> >>)

CollectLeaves == {Str(<<"s">>), TrackLeaf, NameOnlyLeaf}

Wrap(v) ==
    {List(<<v>>), List(<<TrackLeaf, v>>),
     Map(<< <<"tracks", v>> >>),
     Map(<< <<"results", v>> >>),
     Map(<< <<"title", Str(<<"P">>)>>, <<"mix", v>> >>),
     Map(<< <<"tracks", v>>, <<"name", Str(<<"Q">>)>>, <<"bpm", Num(128)>> >>)}
    \cup {List(<<v, l>>) : l \in CollectLeaves}

RECURSIVE ValuesOfDepth(_)
ValuesOfDepth(d) ==
    IF d = 0 THEN CollectLeaves
    ELSE LET inner == ValuesOfDepth(d - 1)
         IN  inner \cup UNION {Wrap(v) : v \in inner}

InitCollect ==
    /\ pc = "collect"
    /\ seed = 0
    /\ data \in ValuesOfDepth(MaxDepth)
    /\ stack = << <<>> >>
    /\ tracks = <<>>
    /\ popped = <<>>
    /\ IdleNormalize /\ IdleBuild /\ IdleLocate /\ IdleSecondRun /\ IdleFetch

NextCollect == CollectStep \/ CollectReturn

SpecCollect == InitCollect /\ [][NextCollect]_vars

(***************************************************************************)
(* Properties of extract_tracks_from_data                                  *)
(***************************************************************************)
RECURSIVE Paths(_)
\* the references of all nodes of a value
Paths(v) ==
    {<<>>} \cup UNION {{<<i>> \o q : q \in Paths(ChildrenOf(v)[i])} : i \in 1..Len(ChildrenOf(v))}

\* how many times x occurs in sequence s
Count(s, x) == Cardinality({i \in 1..Len(s) : s[i] = x})

\* the references of the dict elements of the list under the tracks key of
\* the node at p (empty when there is no such list)
TracksElements(p) ==
    LET n == NodeAt(data, p)
    IN  IF IsDict(n) /\ HasKey(n, "tracks") /\ IsList(Get(n, "tracks"))
        THEN {p \o <<KeyIndex(n, "tracks"), j>> : j \in {k \in 1..Len(Get(n, "tracks").xs) : IsDict(Get(n, "tracks").xs[k])}}
        ELSE {}

\* C4 as stated: every dict element of a list under a tracks key is returned
\* exactly once, whether or not the classifier accepts it.
C4_TracksElementsOnce ==
    pc = "collected" =>
        \A p \in Paths(data) : \A e \in TracksElements(p) : Count(tracks, e) = 1

\* C4 amended: every dict element of a list under a tracks key is returned
\* once for the tracks key and once more if the classifier accepts it: exactly
\* once when is_track_dict rejects it, exactly twice when it accepts it.
C4_TracksElementsOnceOrTwice ==
    pc = "collected" =>
        \A p \in Paths(data) : \A e \in TracksElements(p) :
            Count(tracks, e) = IF is_track_dict(NodeAt(data, e)) THEN 2 ELSE 1

\* {"tracks":[{"name":"T1","artist":"X"}]} has been processed and the one
\* element was returned twice
C4_Witness ==
    /\ pc = "collected"
    /\ data = Map(<< <<"tracks", List(<<TrackLeaf>>)>> >>)
    /\ tracks = << <<1, 1>>, <<1, 1>> >>

\* an element of a tracks list that the classifier rejects was returned once
C4_WitnessRejected ==
    /\ pc = "collected"
    /\ data = Map(<< <<"tracks", List(<<TrackLeaf, NameOnlyLeaf>>)>> >>)
    /\ Count(tracks, <<1, 2>>) = 1

\* C5: traversal completeness: once the function has returned, every dict
\* of the input that is_track_dict accepts, at any depth, is in the result.
C5_TraversalComplete ==
    pc = "collected" =>
        \A p \in Paths(data) :
            (IsDict(NodeAt(data, p)) /\ is_track_dict(NodeAt(data, p)))
                => \E i \in 1..Len(tracks) : tracks[i] = p

\* a track-like dict three levels down, below a node that was itself
\* collected and inside a list, is in the result
C5_Witness ==
    /\ pc = "collected"
    /\ \E i, j \in 1..Len(tracks) :
          /\ Len(tracks[i]) >= 3
          /\ Len(tracks[j]) < Len(tracks[i])
          /\ SubSeq(tracks[i], 1, Len(tracks[j])) = tracks[j]
          /\ \E k \in 1..(Len(tracks[i]) - 1) : IsList(NodeAt(data, SubSeq(tracks[i], 1, k)))

\* the loop is one thread that runs until its stack is empty: a step that
\* can be taken is taken
SpecCollectFair == InitCollect /\ [][NextCollect]_vars /\ WF_vars(NextCollect)

\* every node of data was popped exactly once, and nothing else was
EachNodePoppedOnce ==
    /\ stack = <<>>
    /\ Len(popped) = Cardinality(Paths(data))
    /\ \A p \in Paths(data) : Count(popped, p) = 1

\* C12: the work-list loop terminates on every finite JSON value, and when
\* it has, the stack is empty and every node of the value (mapping, sequence
\* or scalar occurrence) was popped exactly once, so that the number of pops
\* is the number of nodes.
C12_TerminatesEachNodePoppedOnce ==
    /\ <>(pc = "collected")
    /\ [](pc = "collected" => EachNodePoppedOnce)

\* the loop has ended on a value of at least seven nodes, among them a
\* mapping, a sequence and a scalar, after popping a scalar, a sequence and a
\* mapping
C12_Witness ==
    /\ pc = "collected"
    /\ stack = <<>>
    /\ Len(popped) >= 7
    /\ \E i, j, k \in 1..Len(popped) :
          /\ IsDict(NodeAt(data, popped[i]))
          /\ IsList(NodeAt(data, popped[j]))
          /\ IsStr(NodeAt(data, popped[k]))

(***************************************************************************)
(* normalize_track and its helpers.  A Python str is a sequence of         *)
(* characters here; a list[str] is a sequence of such sequences.           *)
(***************************************************************************)
\* find_first: the value of the first key, in the set's iteration order of
\* this run, that the dict has; None when it has none
find_first(d, keys, sd) ==
    LET present == SelectSeq(KeyOrder(keys, sd), LAMBDA k : HasKey(d, k))
    IN  IF present = <<>> THEN Null ELSE Get(d, present[1])

\* x or ""
OrEmpty(v) == IF Truthy(v) THEN v ELSE Str(<<>>)

RECURSIVE Concat(_)
Concat(ss) == IF ss = <<>> THEN <<>> ELSE Head(ss) \o Concat(Tail(ss))

\* lines 344-348: what one entry of a list contributes to names
ArtistEntryNames(entry) ==
    IF IsDict(entry) /\ HasKey(entry, "name") THEN <<PyStr(Get(entry, "name"))>>
    ELSE IF IsStr(entry) THEN <<entry.s>>
    ELSE <<>>

\* normalize_artist_list
normalize_artist_list(value) ==
    IF IsList(value) THEN Concat([i \in 1..Len(value.xs) |-> ArtistEntryNames(value.xs[i])])
    ELSE IF IsDict(value) /\ HasKey(value, "name") THEN <<PyStr(Get(value, "name"))>>
    ELSE IF IsStr(value) THEN <<value.s>>
    ELSE <<>>

\* a variant of normalize_label without the remixers fallback
normalize_label_no_fallback(value, remixers) ==
    IF IsDict(value) /\ HasKey(value, "name") THEN PyStr(Get(value, "name"))
    ELSE IF IsStr(value) THEN value.s
    ELSE <<>>

\* normalize_label
normalize_label(value, remixers) ==
    IF IsDict(value) /\ HasKey(value, "name") THEN PyStr(Get(value, "name"))
    ELSE IF IsStr(value) THEN value.s
    ELSE IF remixers # <<>> THEN Join(<<",", " ">>, remixers)
    ELSE <<>>

\* normalize_genre
normalize_genre(value) ==
    IF IsDict(value) /\ HasKey(value, "name") THEN PyStr(Get(value, "name"))
    ELSE IF IsDict(value) /\ HasKey(value, "slug") THEN PyStr(Get(value, "slug"))
    ELSE IF IsStr(value) THEN value.s
    ELSE <<>>

RECURSIVE normalize_image(_)
\* normalize_image
normalize_image(value) ==
    IF IsStr(value) THEN value.s
    ELSE IF IsDict(value) THEN
        IF HasKey(value, "uri") THEN PyStr(Get(value, "uri"))
        ELSE IF HasKey(value, "url") THEN PyStr(Get(value, "url"))
        ELSE LET links == SelectSeq(ChildrenOf(value),
                                    LAMBDA e : IsStr(e) /\ StartsWith(e.s, <<"h","t","t","p">>))
             IN  IF links # <<>> THEN links[1].s ELSE <<>>
    ELSE IF IsList(value) THEN
        LET images == SelectSeq([i \in 1..Len(value.xs) |-> normalize_image(value.xs[i])],
                                LAMBDA img : img # <<>>)
        IN  IF images # <<>> THEN images[1] ELSE <<>>
    ELSE <<>>

\* lines 396, 405: the trimmed text of the title
TitleText(trk, sd) == Strip(PyStr(OrEmpty(find_first(trk, TRACK_NAME_KEYS, sd))))

\* lines 397, 402-403, 406: the trimmed text of the mix name
MixNameText(trk, sd) ==
    LET found == OrEmpty(find_first(trk, MIX_KEYS, sd))
        mix_name == IF IsDict(found) /\ HasKey(found, "name") THEN Get(found, "name") ELSE found
    IN  Strip(PyStr(mix_name))

\* a variant of line 407 that compares the mix name case-sensitively
MixNameShownCaseSensitive(mix_name_text) ==
    /\ mix_name_text # <<>>
    /\ mix_name_text \notin {<<"o","r","i","g","i","n","a","l"," ","m","i","x">>,
                             <<"o","r","i","g","i","n","a","l">>}

\* line 407: whether the mix name is appended to the title
MixNameShown(mix_name_text) ==
    /\ mix_name_text # <<>>
    /\ Lower(mix_name_text) \notin {<<"o","r","i","g","i","n","a","l"," ","m","i","x">>,
                                    <<"o","r","i","g","i","n","a","l">>}

\* a variant of line 410 that looks at the suppression and not at the mix name
RemixShownUnlessMixShown(remixers, mix_name_text) ==
    remixers # <<>> /\ ~MixNameShown(mix_name_text)

\* line 410: whether the Remix part is appended to the title
RemixShown(remixers, mix_name_text) == remixers # <<>> /\ mix_name_text = <<>>

\* lines 405-413
SongName(title_text, mix_name_text, remixers) ==
    LET mix_part == IF MixNameShown(mix_name_text) THEN <<mix_name_text>> ELSE <<>>
        remix_part == IF RemixShown(remixers, mix_name_text)
                      THEN <<Join(<<" ">>, <<Join(<<",", " ">>, remixers), <<"R","e","m","i","x">> >>)>>
                      ELSE <<>>
        title_parts == <<title_text>> \o mix_part \o remix_part
    IN  Strip(Join(<<" ">>, SelectSeq(title_parts, LAMBDA part : part # <<>>)))

\* line 418
BpmKey(trk) == <<>>

\* normalize_track
normalize_track(trk, sd) ==
    LET artists == normalize_artist_list(find_first(trk, ARTIST_KEYS, sd))
        remixers == normalize_artist_list(GetOrNone(trk, "remixers"))
    IN  [song_name |-> SongName(TitleText(trk, sd), MixNameText(trk, sd), remixers),
         artist_name |-> Join(<<",", " ">>, artists),
         label_name |-> normalize_label(find_first(trk, LABEL_KEYS, sd), remixers),
         genre |-> normalize_genre(find_first(trk, GENRE_KEYS, sd)),
         bpm_key |-> BpmKey(trk),
         album_art |-> normalize_image(find_first(trk, IMAGE_KEYS, sd))]

(***************************************************************************)
(* normalize_track on its own: the records are built from the alternatives *)
(* for each field below.                                                   *)
(***************************************************************************)
Strobe == <<"S","t","r","o","b","e">>

SongA == <<"S","o","n","g"," ","A">>

ArtistA == <<"A","r","t","i","s","t"," ","A">>

OriginalMix == <<"O","r","i","g","i","n","a","l"," ","M","i","x">>

ClubMix == <<"C","l","u","b"," ","M","i","x">>

DJX == <<"D","J"," ","X">>

NameFields ==
    {<<>>,
     << <<"name", Str(Strobe)>> >>,
     << <<"title", Str(<<" ">>)>> >>,
     << <<"name", Num(0)>> >>,
     << <<"title", Str(SongA)>>, <<"name", Str(Strobe)>> >>}

MixFields ==
    {<<>>,
     << <<"mix", Str(OriginalMix)>> >>,
     << <<"mixName", Str(<<"O","R","I","G","I","N","A","L">>)>> >>,
     << <<"mix_name", Str(<<" ","o","r","i","g","i","n","a","l"," ","m","i","x","\n">>)>> >>,
     << <<"mix", Str(ClubMix)>> >>,
     << <<"mix", Str(<<" ">>)>> >>,
     << <<"mix", Map(<< <<"name", Str(<<"D","u","b">>)>> >>)>> >>,
     << <<"mix", Map(<< <<"name", Str(OriginalMix)>> >>)>> >>,
     << <<"mix", Map(<< <<"id", Num(7)>> >>)>> >>,
     << <<"mix", Null>> >>,
     << <<"mixName", Str(<<>>)>>, <<"mix", Str(ClubMix)>> >>}

RemixerFields ==
    {<<>>,
     << <<"remixers", List(<<>>)>> >>,
     << <<"remixers", List(<<Map(<< <<"name", Str(DJX)>> >>)>>)>> >>,
     << <<"remixers", List(<<Str(<<"A">>), Map(<< <<"name", Str(<<"B">>)>> >>)>>)>> >>,
     << <<"remixers", List(<<Str(<<>>)>>)>> >>,
     << <<"remixers", List(<<Num(3)>>)>> >>}

LabelFields ==
    {<<>>,
     << <<"label", Map(<< <<"name", Str(<<"L","a","b">>)>> >>)>> >>,
     << <<"labelName", Str(<<"L","a","b">>)>> >>,
     << <<"label", Str(<<>>)>> >>,
     << <<"label", Map(<< <<"id", Num(7)>> >>)>> >>,
     << <<"label", Num(7)>> >>,
     << <<"label", Null>> >>,
     << <<"label", Null>>, <<"label_name", Str(<<"L","a","b">>)>> >>}

TempoFields ==
    {<<>>,
     << <<"bpm", Num(128)>> >>,
     << <<"bpm", Num(0)>>, <<"tempo", Num(120)>> >>,
     << <<"bpm_value", Num(128)>> >>}

KeyFields ==
    {<<>>,
     << <<"key", Str(<<"8","A">>)>> >>,
     << <<"key_name", Str(<<"8","A">>)>> >>}

ArtistFields ==
    {<<>>,
     << <<"artist", Str(ArtistA)>> >>,
     << <<"artists", List(<<Map(<< <<"name", Str(<<"A">>)>> >>), Map(<< <<"name", Str(<<"B">>)>> >>)>>)>> >>,
     << <<"artist", Map(<< <<"id", Num(1)>> >>)>>, <<"artist_name", Str(ArtistA)>> >>}

GenreFields ==
    {<<>>,
     << <<"genre", Map(<< <<"slug", Str(<<"t","e","c","h">>)>> >>)>> >>,
     << <<"genreName", Str(<<"T","e","c","h">>)>>, <<"genre", Map(<< <<"name", Str(<<"H","o","u","s","e">>)>>, <<"slug", Str(<<"h","o","u","s","e">>)>> >>)>> >>}

ImageFields ==
    {<<>>,
     << <<"image", Map(<< <<"id", Num(1)>>, <<"dynamic", Str(<<"h","t","t","p",":","/","/","i">>)>> >>)>> >>,
     << <<"images", List(<<Map(<<>>), Str(<<>>), Map(<< <<"url", Str(<<"u">>)>> >>)>>)>> >>}

\* records that vary the title, the mix name, the remixers and the label
TitleRecords ==
    {Map(n \o x \o r \o l) : n \in NameFields, x \in MixFields, r \in RemixerFields, l \in LabelFields}

\* records that vary the tempo, the key, the artists, the genre and the image
DetailRecords ==
    {Map(<< <<"name", Str(SongA)>> >> \o a \o b \o k \o g \o i) :
        a \in ArtistFields, b \in TempoFields, k \in KeyFields, g \in GenreFields, i \in ImageFields}

InitNormalize ==
    /\ pc = "normalize"
    /\ seed \in Seeds
    /\ track \in TitleRecords \cup DetailRecords
    /\ verdict = FALSE
    /\ canon = Null
    /\ IdleCollect /\ IdleBuild /\ IdleLocate /\ IdleSecondRun /\ IdleFetch

Normalize ==
    /\ pc = "normalize"
    /\ canon' = normalize_track(track, seed)
    /\ pc' = "normalized"
    /\ UNCHANGED <<seed, track, verdict, data, stack, tracks, cands, idx, seen, normalized, html, pattern, matches, blobs, seed2, canon2, popped, extract_all, page, total_tracks, all_page_sources, page_source>>

NextNormalize == Normalize

SpecNormalize == InitNormalize /\ [][NextNormalize]_vars

(***************************************************************************)
(* Properties of normalize_track                                           *)
(***************************************************************************)
\* the first of the given keys whose value in the record is truthy
FirstTruthy(trk, keys) ==
    LET hits == SelectSeq(keys, LAMBDA k : HasKey(trk, k) /\ Truthy(Get(trk, k)))
    IN  IF hits = <<>> THEN Null ELSE Get(trk, hits[1])

\* the tempo/key summary that C3 describes
FormattedBpmKey(trk) ==
    LET tempo == FirstTruthy(trk, <<"bpm", "bpm_value", "tempo">>)
        key == FirstTruthy(trk, <<"key", "key_name">>)
        tempo_part == IF tempo # Null THEN <<PyStr(tempo) \o <<" ","b","p","m">> >> ELSE <<>>
        key_part == IF key # Null THEN <<PyStr(key)>> ELSE <<>>
    IN  Join(<<",", " ">>, tempo_part \o key_part)

\* C3: bpm_key is "<tempo> bpm" for a truthy bpm, bpm_value or tempo, then
\* the key or key_name, joined with ", ": "128 bpm, 8A" for bpm=128, key="8A".
C3_BpmKeyFormatted ==
    pc = "normalized" => canon.bpm_key = FormattedBpmKey(track)

\* a (with one space between, when both are non-empty), trimmed
Appended(a, b) == Strip(IF a = <<>> THEN b ELSE IF b = <<>> THEN a ELSE a \o <<" ">> \o b)

\* whether a trimmed mix name is shown: non-empty and, whatever its case,
\* not "original mix" or "original"
IsShownMix(m) ==
    /\ m # <<>>
    /\ Lower(m) # <<"o","r","i","g","i","n","a","l"," ","m","i","x">>
    /\ Lower(m) # <<"o","r","i","g","i","n","a","l">>

\* the remixers of a record as a list of names
RemixersOf(trk) == normalize_artist_list(GetOrNone(trk, "remixers"))

\* C7: song_name has the mix name appended to the title if and only if the
\* trimmed mix name is non-empty and is not, in any case, "original mix" or
\* "original"; a suppressed mix name leaves the title alone.
C7_MixNameAppended ==
    pc = "normalized" =>
        LET t == TitleText(track, seed)
            m == MixNameText(track, seed)
        IN  /\ IsShownMix(m) => canon.song_name = Appended(t, m)
            /\ (m # <<>> /\ ~IsShownMix(m)) => canon.song_name = t
            /\ track = Map(<< <<"name", Str(Strobe)>>, <<"mix", Str(OriginalMix)>> >>)
                  => canon.song_name = <<"S","t","r","o","b","e">>
            /\ track = Map(<< <<"name", Str(Strobe)>>, <<"mix", Str(ClubMix)>> >>)
                  => canon.song_name = <<"S","t","r","o","b","e"," ","C","l","u","b"," ","M","i","x">>

\* name="Strobe", mix="Club Mix" was normalized to "Strobe Club Mix"
C7_Witness ==
    /\ pc = "normalized"
    /\ track = Map(<< <<"name", Str(Strobe)>>, <<"mix", Str(ClubMix)>> >>)
    /\ canon.song_name = <<"S","t","r","o","b","e"," ","C","l","u","b"," ","M","i","x">>

\* name="Strobe", mixName="ORIGINAL" was normalized to "Strobe"
C7_WitnessSuppressed ==
    /\ pc = "normalized"
    /\ track = Map(<< <<"name", Str(Strobe)>>, <<"mixName", Str(<<"O","R","I","G","I","N","A","L">>)>> >>)
    /\ canon.song_name = Strobe

\* C8: song_name has "<remixers joined by ', '> Remix" appended if and only
\* if remixers normalizes to a non-empty list and the trimmed mix name is
\* empty; with a mix name, also a suppressed one, there is no Remix suffix.
C8_RemixAppended ==
    pc = "normalized" =>
        LET t == TitleText(track, seed)
            m == MixNameText(track, seed)
            remixers == RemixersOf(track)
            suffix == Join(<<",", " ">>, remixers) \o <<" ","R","e","m","i","x">>
        IN  /\ (remixers # <<>> /\ m = <<>>) => canon.song_name = Appended(t, suffix)
            /\ ~(remixers # <<>> /\ m = <<>>)
                  => canon.song_name = IF IsShownMix(m) THEN Appended(t, m) ELSE t
            /\ track = Map(<< <<"name", Str(Strobe)>>,
                              <<"remixers", List(<<Map(<< <<"name", Str(DJX)>> >>)>>)>> >>)
                  => canon.song_name = <<"S","t","r","o","b","e"," ","D","J"," ","X"," ","R","e","m","i","x">>

\* name="Strobe", no mix, remixers=[{"name":"DJ X"}] was normalized to
\* "Strobe DJ X Remix"
C8_Witness ==
    /\ pc = "normalized"
    /\ track = Map(<< <<"name", Str(Strobe)>>,
                      <<"remixers", List(<<Map(<< <<"name", Str(DJX)>> >>)>>)>> >>)
    /\ canon.song_name = <<"S","t","r","o","b","e"," ","D","J"," ","X"," ","R","e","m","i","x">>

\* a record with remixers and a suppressed "Original Mix" got no suffix
C8_WitnessSuppressedMix ==
    /\ pc = "normalized"
    /\ track = Map(<< <<"name", Str(Strobe)>>, <<"mix", Str(OriginalMix)>>,
                      <<"remixers", List(<<Map(<< <<"name", Str(DJX)>> >>)>>)>> >>)
    /\ canon.song_name = Strobe

\* whether the record has a label key at all
HasLabelKey(trk) == Keys(trk) \cap {"label", "labelName", "label_name"} # {}

InitTwoRuns ==
    /\ pc = "normalize"
    /\ seed \in Seeds
    /\ seed2 \in Seeds
    /\ track \in TitleRecords \cup DetailRecords
    /\ verdict = FALSE
    /\ canon = Null
    /\ canon2 = Null
    /\ IdleCollect /\ IdleBuild /\ IdleLocate /\ IdleFetch

\* a second call of normalize_track on the record, in the same run
NormalizeAgain ==
    /\ pc = "normalized"
    /\ canon2' = normalize_track(track, seed)
    /\ pc' = "normalized_again"
    /\ UNCHANGED <<seed, track, verdict, canon, data, stack, tracks, cands, idx, seen, normalized, html, pattern, matches, blobs, seed2, popped, extract_all, page, total_tracks, all_page_sources, page_source>>

\* a call of normalize_track on the record in the other run
NormalizeOtherRun ==
    /\ pc = "normalized"
    /\ canon2' = normalize_track(track, seed2)
    /\ pc' = "normalized_other_run"
    /\ UNCHANGED <<seed, track, verdict, canon, data, stack, tracks, cands, idx, seen, normalized, html, pattern, matches, blobs, seed2, popped, extract_all, page, total_tracks, all_page_sources, page_source>>

NextTwoRuns == Normalize \/ NormalizeAgain \/ NormalizeOtherRun

SpecTwoRuns == InitTwoRuns /\ [][NextTwoRuns]_vars

\* C11: two normalizations of the same record, in the same run or in
\* different runs, give identical CanonicalTracks.
C11_SameCanonicalTrack ==
    pc \in {"normalized_again", "normalized_other_run"} => canon2 = canon

(***************************************************************************)
(* The normalize-and-deduplicate loop of build_playlist_data, lines        *)
(* 474-490, on a list of candidate records.                                *)
(***************************************************************************)
\* lines 479-483
DedupKey(nt) == <<nt.song_name, nt.artist_name, nt.label_name>>

\* a variant of lines 484-488 without the check of seen
KeptWithoutSeenCheck(out, sn, nt) ==
    IF nt.song_name # <<>> THEN Append(out, nt) ELSE out

\* a variant of lines 484-488 that appends every record with a new key
KeptWithEmptyTitles(out, sn, nt) ==
    IF DedupKey(nt) \in sn THEN out ELSE Append(out, nt)

\* lines 484-488: the list normalized after one candidate
Kept(out, sn, nt) ==
    IF DedupKey(nt) \in sn THEN out
    ELSE IF nt.song_name # <<>> THEN Append(out, nt)
    ELSE out

\* one iteration of the for loop
BuildStep ==
    /\ pc = "build"
    /\ idx < Len(cands)
    /\ LET normalized_track == normalize_track(cands[idx + 1], seed)
       IN  /\ normalized' = Kept(normalized, seen, normalized_track)
           /\ seen' = seen \cup {DedupKey(normalized_track)}
    /\ idx' = idx + 1
    /\ UNCHANGED <<pc, seed, track, verdict, canon, data, stack, tracks, cands, html, pattern, matches, blobs, seed2, canon2, popped, extract_all, page, total_tracks, all_page_sources, page_source>>

\* the loop is over and normalized is returned
BuildReturn ==
    /\ pc = "build"
    /\ idx = Len(cands)
    /\ pc' = "built"
    /\ UNCHANGED <<seed, track, verdict, canon, data, stack, tracks, cands, idx, seen, normalized, html, pattern, matches, blobs, seed2, canon2, popped, extract_all, page, total_tracks, all_page_sources, page_source>>

\* the candidates: two records with the same key and different genres, a
\* third track, a record whose key depends on the iteration order of
\* TRACK_NAME_KEYS, and two records without a title
CandidateRecords ==
    {Map(<< <<"name", Str(<<"A">>)>>, <<"artist", Str(<<"X">>)>>, <<"genre", Str(<<"g">>)>> >>),
     Map(<< <<"title", Str(<<"A">>)>>, <<"mix", Str(OriginalMix)>>,
            <<"artists", List(<<Str(<<"X">>)>>)>>, <<"genre", Str(<<"h">>)>> >>),
     Map(<< <<"name", Str(<<"B">>)>>, <<"artist", Str(<<"X">>)>> >>),
     Map(<< <<"name", Str(<<"A">>)>>, <<"title", Str(<<"B">>)>>, <<"artist", Str(<<"X">>)>>,
            <<"genre", Str(<<"k">>)>> >>),
     Map(<< <<"name", Str(<<" ">>)>>, <<"artist", Str(<<"X">>)>>, <<"genre", Str(<<"g">>)>> >>),
     Map(<< <<"artist", Str(<<"Y">>)>>, <<"label", Str(<<"L">>)>>, <<"mix", Str(OriginalMix)>> >>)}

RECURSIVE SeqsUpTo(_, _)
\* the sequences over S of length at most n
SeqsUpTo(S, n) ==
    IF n = 0 THEN {<<>>}
    ELSE LET shorter == SeqsUpTo(S, n - 1)
         IN  shorter \cup {Append(q, x) : q \in {r \in shorter : Len(r) = n - 1}, x \in S}

InitBuild ==
    /\ pc = "build"
    /\ seed \in Seeds
    /\ cands \in SeqsUpTo(CandidateRecords, MaxTracks)
    /\ idx = 0
    /\ seen = {}
    /\ normalized = <<>>
    /\ IdleNormalize /\ IdleCollect /\ IdleLocate /\ IdleSecondRun /\ IdleFetch

NextBuild == BuildStep \/ BuildReturn

SpecBuild == InitBuild /\ [][NextBuild]_vars

(***************************************************************************)
(* Properties of the deduplication loop                                    *)
(***************************************************************************)
\* the normalization of the i-th candidate
NormalizedCandidate(i) == normalize_track(cands[i], seed)

\* the position of the first candidate with the key k
FirstWithKey(k) ==
    CHOOSE i \in 1..Len(cands) :
        /\ DedupKey(NormalizedCandidate(i)) = k
        /\ \A h \in 1..(i - 1) : DedupKey(NormalizedCandidate(h)) # k

\* C1: the output has at most one record per (song_name, artist_name,
\* label_name) key, each record is the normalization of the first candidate
\* with its key, and the records are in the order of those first candidates.
C1_FirstOccurrenceWins ==
    pc = "built" =>
        /\ \A i, j \in 1..Len(normalized) :
              i # j => DedupKey(normalized[i]) # DedupKey(normalized[j])
        /\ \A j \in 1..Len(normalized) :
              /\ \E i \in 1..Len(cands) :
                    DedupKey(NormalizedCandidate(i)) = DedupKey(normalized[j])
              /\ normalized[j] = NormalizedCandidate(FirstWithKey(DedupKey(normalized[j])))
        /\ \A i, j \in 1..Len(normalized) :
              i < j => FirstWithKey(DedupKey(normalized[i])) < FirstWithKey(DedupKey(normalized[j]))

\* two candidates with the same key and different genres were processed, a
\* different track between them, and the output has the first one's genre
C1_Witness ==
    /\ pc = "built"
    /\ Len(cands) >= 3
    /\ Len(normalized) = 2
    /\ DedupKey(NormalizedCandidate(1)) = DedupKey(NormalizedCandidate(3))
    /\ NormalizedCandidate(1).genre # NormalizedCandidate(3).genre
    /\ normalized[1] = NormalizedCandidate(1)
    /\ normalized[2] = NormalizedCandidate(2)

\* C2: no record of the output has an empty song_name: a candidate whose
\* normalized song_name is empty is never in the output.
C2_NoEmptySongName ==
    /\ \A j \in 1..Len(normalized) : normalized[j].song_name # <<>>
    /\ \A i \in 1..Len(cands) :
          NormalizedCandidate(i).song_name = <<>>
              => \A j \in 1..Len(normalized) : normalized[j] # NormalizedCandidate(i)

\* a candidate with an empty song_name and other fields set came first, a
\* titled one after it, and only the titled one was returned
C2_Witness ==
    /\ pc = "built"
    /\ Len(cands) >= 2
    /\ NormalizedCandidate(1).song_name = <<>>
    /\ NormalizedCandidate(1).label_name # <<>>
    /\ NormalizedCandidate(2).song_name # <<>>
    /\ normalized = <<NormalizedCandidate(2)>>

(***************************************************************************)
(* extract_script_json.  The html is the sequence of the occurrences of    *)
(* the four patterns in it, in document order.  The text an occurrence     *)
(* captures is known by its position and by its form:                      *)
(*   "json"     valid JSON without character references                   *)
(*   "escaped"  JSON whose quotes are written &quot;: valid only once      *)
(*              unescaped                                                  *)
(*   "entity"   valid JSON with a &quot; inside a string: no longer valid  *)
(*              once unescaped                                             *)
(*   "broken"   not JSON, unescaped or not (truncated, a JS literal)       *)
(***************************************************************************)
PatternKinds == {"next_data", "preloaded", "initial", "data_track"}

TextForms == {"json", "escaped", "entity", "broken"}

\* html.unescape, on the form of a text
Unescape(form) ==
    CASE form = "escaped" -> "json"
      [] form = "entity" -> "broken"
      [] OTHER -> form

\* whether json.loads returns a value (otherwise it raises JSONDecodeError)
JsonLoads(form) == form \in {"json", "entity"}

\* lines 267-271: re.search, the first occurrence of the __NEXT_DATA__ script
SearchNextData(doc) ==
    LET found == SelectSeq([i \in 1..Len(doc) |-> i], LAMBDA i : doc[i].kind = "next_data")
    IN  IF found = <<>> THEN <<>> ELSE <<found[1]>>

\* line 284 and line 291: re.finditer and re.findall, every occurrence in
\* document order
FindAll(doc, kind) == SelectSeq([i \in 1..Len(doc) |-> i], LAMBDA i : doc[i].kind = kind)

\* lines 279-282
StatePatterns == <<"preloaded", "initial">>

\* a variant of the except clauses that leaves the loop at a parse failure
RestAfterBreak(ms, parsed) == IF parsed THEN Tail(ms) ELSE <<>>

\* lines 288-289, 295-296: after a match, parsed or not, the loop goes on
\* with the next match
RestAfter(ms, parsed) == Tail(ms)

\* lines 272-277, and the scan for the first state pattern; the strip() of
\* line 273 removes only white space around the text, which json.loads
\* accepts anyway
LocateNextData ==
    /\ pc = "locate_next"
    /\ LET m == SearchNextData(html)
       IN  blobs' = IF m # <<>> /\ JsonLoads(Unescape(html[m[1]].form))
                    THEN Append(blobs, m[1])
                    ELSE blobs
    /\ pattern' = 1
    /\ matches' = FindAll(html, StatePatterns[1])
    /\ pc' = "locate_state"
    /\ UNCHANGED <<seed, track, verdict, canon, data, stack, tracks, cands, idx, seen, normalized, html, seed2, canon2, popped, extract_all, page, total_tracks, all_page_sources, page_source>>

\* lines 284-289: one match of a state pattern; the text is not unescaped
LocateStateMatch ==
    /\ pc = "locate_state"
    /\ matches # <<>>
    /\ LET parsed == JsonLoads(html[Head(matches)].form)
       IN  /\ blobs' = IF parsed THEN Append(blobs, Head(matches)) ELSE blobs
           /\ matches' = RestAfter(matches, parsed)
    /\ UNCHANGED <<pc, seed, track, verdict, canon, data, stack, tracks, cands, idx, seen, normalized, html, pattern, seed2, canon2, popped, extract_all, page, total_tracks, all_page_sources, page_source>>

\* line 283: the next state pattern; after the last, line 291
LocateNextPattern ==
    /\ pc = "locate_state"
    /\ matches = <<>>
    /\ IF pattern < Len(StatePatterns)
       THEN /\ pattern' = pattern + 1
            /\ matches' = FindAll(html, StatePatterns[pattern + 1])
            /\ pc' = pc
       ELSE /\ pattern' = pattern
            /\ matches' = FindAll(html, "data_track")
            /\ pc' = "locate_data"
    /\ UNCHANGED <<seed, track, verdict, canon, data, stack, tracks, cands, idx, seen, normalized, html, blobs, seed2, canon2, popped, extract_all, page, total_tracks, all_page_sources, page_source>>

\* lines 292-296: one data-track attribute, unescaped and parsed
LocateDataTrack ==
    /\ pc = "locate_data"
    /\ matches # <<>>
    /\ LET parsed == JsonLoads(Unescape(html[Head(matches)].form))
       IN  /\ blobs' = IF parsed THEN Append(blobs, Head(matches)) ELSE blobs
           /\ matches' = RestAfter(matches, parsed)
    /\ UNCHANGED <<pc, seed, track, verdict, canon, data, stack, tracks, cands, idx, seen, normalized, html, pattern, seed2, canon2, popped, extract_all, page, total_tracks, all_page_sources, page_source>>

\* line 298
LocateReturn ==
    /\ pc = "locate_data"
    /\ matches = <<>>
    /\ pc' = "located"
    /\ UNCHANGED <<seed, track, verdict, canon, data, stack, tracks, cands, idx, seen, normalized, html, pattern, matches, blobs, seed2, canon2, popped, extract_all, page, total_tracks, all_page_sources, page_source>>

InitLocate ==
    /\ pc = "locate_next"
    /\ seed = 0
    /\ html \in SeqsUpTo([kind : PatternKinds, form : TextForms], MaxSegments)
    /\ pattern = 0
    /\ matches = <<>>
    /\ blobs = <<>>
    /\ IdleNormalize /\ IdleCollect /\ IdleBuild /\ IdleSecondRun /\ IdleFetch

NextLocate ==
    \/ LocateNextData
    \/ LocateStateMatch
    \/ LocateNextPattern
    \/ LocateDataTrack
    \/ LocateReturn

SpecLocate == InitLocate /\ [][NextLocate]_vars

(***************************************************************************)
(* Properties of extract_script_json                                       *)
(***************************************************************************)
\* whether the text of the occurrence at i parses, as its pattern reads it:
\* the script and the attributes are unescaped first, the assignments not
ParsesAt(i) ==
    IF html[i].kind \in {"next_data", "data_track"}
    THEN html[i].form \in {"json", "escaped"}
    ELSE html[i].form \in {"json", "entity"}

\* the occurrences of one kind, in document order
OccurrencesOf(kind) == SelectSeq([i \in 1..Len(html) |-> i], LAMBDA i : html[i].kind = kind)

\* the matches in the order the patterns are attempted: the first
\* __NEXT_DATA__ script, the __PRELOADED_STATE__ and the __INITIAL_STATE__
\* assignments, the data-track attributes
MatchesInPatternOrder ==
    (IF OccurrencesOf("next_data") = <<>> THEN <<>> ELSE <<Head(OccurrencesOf("next_data"))>>)
    \o OccurrencesOf("preloaded") \o OccurrencesOf("initial") \o OccurrencesOf("data_track")

\* C10: a match whose text is not valid JSON is skipped and nothing else is
\* lost: the returned blobs are exactly the matches that parse, in pattern
\* order and, within a pattern, in match order.
C10_ParsedMatchesInOrder ==
    pc = "located" =>
        /\ blobs = SelectSeq(MatchesInPatternOrder, ParsesAt)
        /\ Len(blobs) = Cardinality({i \in Range(MatchesInPatternOrder) : ParsesAt(i)})

\* a data-track attribute, a broken __PRELOADED_STATE__ and a valid
\* __INITIAL_STATE__, in that document order: the broken one was skipped and
\* the assignment was returned before the attribute
C10_Witness ==
    /\ pc = "located"
    /\ Len(html) = 3
    /\ html[1] = [kind |-> "data_track", form |-> "escaped"]
    /\ html[2] = [kind |-> "preloaded", form |-> "broken"]
    /\ html[3] = [kind |-> "initial", form |-> "json"]
    /\ blobs = <<3, 1>>

(***************************************************************************)
(* fetch_html_with_selenium, lines 128-261: the pagination loop and the    *)
(* page source it returns.  A page source is known by the page it was      *)
(* loaded from and by the number of tracks the page reports (the length of *)
(* queries[1].state.data.results, lines 190-202).                          *)
(***************************************************************************)
\* per_page=100 of lines 171-173 and the test of line 209
PER_PAGE == 100

\* the safety limit of line 214
PAGE_LIMIT == 100

Source(p, n) == [page |-> p, tracks |-> n]

\* what a loaded page may report: no track, one, a page short of one track,
\* a full page
PageCounts == {0, 1, PER_PAGE - 1, PER_PAGE}

InitFetch ==
    /\ pc = "fetch_start"
    /\ seed = 0
    /\ extract_all \in BOOLEAN
    /\ page = 0
    /\ total_tracks = 0
    /\ all_page_sources = <<>>
    /\ page_source = Null
    /\ IdleNormalize /\ IdleCollect /\ IdleBuild /\ IdleLocate /\ IdleSecondRun

\* lines 161-165
FetchStart ==
    /\ pc = "fetch_start"
    /\ all_page_sources' = <<>>
    /\ page' = 1
    /\ total_tracks' = 0
    /\ pc' = IF extract_all THEN "fetch_loop" ELSE "fetch_single"
    /\ UNCHANGED <<seed, track, verdict, canon, data, stack, tracks, cands, idx, seen, normalized, html, pattern, matches, blobs, seed2, canon2, popped, extract_all, page_source>>

\* one iteration of the while loop, lines 168-216
LoadPage ==
    /\ pc = "fetch_loop"
    /\ \E current_tracks \in PageCounts :
          /\ total_tracks' = total_tracks + current_tracks
          /\ all_page_sources' = Append(all_page_sources, Source(page, current_tracks))
          /\ IF current_tracks < PER_PAGE
             THEN /\ page' = page
                  /\ pc' = "fetch_paged"
             ELSE /\ page' = page + 1
                  /\ pc' = IF page + 1 > PAGE_LIMIT THEN "fetch_paged" ELSE "fetch_loop"
    /\ UNCHANGED <<seed, track, verdict, canon, data, stack, tracks, cands, idx, seen, normalized, html, pattern, matches, blobs, seed2, canon2, popped, extract_all, page_source>>

\* line 223, and the return of line 254
ReturnFirstPage ==
    /\ pc = "fetch_paged"
    /\ page_source' = IF all_page_sources # <<>> THEN all_page_sources[1] ELSE Str(<<>>)
    /\ pc' = "fetched"
    /\ UNCHANGED <<seed, track, verdict, canon, data, stack, tracks, cands, idx, seen, normalized, html, pattern, matches, blobs, seed2, canon2, popped, extract_all, page, total_tracks, all_page_sources>>

\* the single page load of lines 226-239, and the return of line 254
LoadSingle ==
    /\ pc = "fetch_single"
    /\ \E n \in PageCounts : page_source' = Source(1, n)
    /\ pc' = "fetched"
    /\ UNCHANGED <<seed, track, verdict, canon, data, stack, tracks, cands, idx, seen, normalized, html, pattern, matches, blobs, seed2, canon2, popped, extract_all, page, total_tracks, all_page_sources>>

\* Selenium is missing (lines 130-132) or the browser raises while a page is
\* loaded (lines 257-261): the page fetched by fetch_html(url) is returned
FetchFallback ==
    /\ pc \in {"fetch_start", "fetch_loop", "fetch_single"}
    /\ \E n \in PageCounts : page_source' = Source(1, n)
    /\ pc' = "fetched_fallback"
    /\ UNCHANGED <<seed, track, verdict, canon, data, stack, tracks, cands, idx, seen, normalized, html, pattern, matches, blobs, seed2, canon2, popped, extract_all, page, total_tracks, all_page_sources>>

NextFetch == FetchStart \/ LoadPage \/ ReturnFirstPage \/ LoadSingle \/ FetchFallback

SpecFetch == InitFetch /\ [][NextFetch]_vars

\* the pages loaded are 1, 2, ..., and the last one is the first that
\* reports fewer than PER_PAGE tracks, or is page PAGE_LIMIT
LoadedUntilShortPageOrLimit ==
    LET n == Len(all_page_sources)
    IN  /\ n >= 1
        /\ \A i \in 1..n : all_page_sources[i].page = i
        /\ \A i \in 1..(n - 1) : ~(all_page_sources[i].tracks < PER_PAGE)
        /\ all_page_sources[n].tracks < PER_PAGE \/ n = PAGE_LIMIT

\* the returned page source holds the tracks of every page that was loaded:
\* as many tracks as total_tracks counts, and every loaded page that reports
\* tracks is the returned one
ReturnsTracksOfEveryPage ==
    /\ page_source.tracks = total_tracks
    /\ \A i \in 1..Len(all_page_sources) :
          all_page_sources[i].tracks > 0 => page_source = all_page_sources[i]

\* C13: with extract_all, the loop loads pages 1, 2, ... and stops at the
\* first page reporting fewer than 100 tracks or after 100 pages, and the
\* page source then returned contains the track data of every page loaded
\* (all the tracks counted in total_tracks), not only of page 1.
C13_ReturnsEveryLoadedPage ==
    (pc = "fetched" /\ extract_all) =>
        LoadedUntilShortPageOrLimit /\ ReturnsTracksOfEveryPage

====
